---- MODULE Spec2Model ----
(***************************************************************************)
(* beak: a worker pool over a tiny_http listener.  `run` (src/src/lib.rs)  *)
(* binds the address, spawns `workers` threads, each owning a matchit      *)
(* Router and a Vec<u8> buffer, and then joins the threads in spawn order. *)
(* Each thread loops: recv, route match, optional multipart extraction,    *)
(* Request construction + handler call, flush, notify, drop.               *)
(*                                                                         *)
(* Option<T> is modelled as a sequence: <<>> is None, <<x>> is Some(x).    *)
(* io::Result<()> is modelled as a string: "ok" or an io::ErrorKind.       *)
(***************************************************************************)
EXTENDS Integers, Sequences, FiniteSets, TLC

\* ---------------------------------------------------------------- bounds
MaxWorkers == 2
MaxConns   == 2
MaxPartLen == 2

\* ------------------------------------------------------- input universes
\* the capacities run is called with (main.rs passes 200000; scaled down so
\* that a part can be longer than the capacity)
UploadLimits == {1}

None == <<>>

Some(x) == <<x>>

NyaHandler == [path |-> "/nya", needs_multipart |-> FALSE, handler |-> "NyaHandler"]

UpHandler == [path |-> "/up", needs_multipart |-> TRUE, handler |-> "UpHandler"]

NyaUpload == [path |-> "/nya", needs_multipart |-> TRUE, handler |-> "NyaUpload"]

NoRoute == [path |-> "", needs_multipart |-> FALSE, handler |-> "none"]

\* the static route lists handed to run: one without and one with two
\* identical literal patterns
RouteLists == { <<NyaHandler, UpHandler>>, <<NyaHandler, NyaUpload>> }

Urls == {"/nya", "/up", "/zzz"}

\* the io::ErrorKind a write to a connection the client closed fails with;
\* every other kind is "Other", and "ok" is Ok(())
ClientClosingKinds == {"BrokenPipe"}

IoOutcomes == {"ok", "Other"} \cup ClientClosingKinds

\* Option<String> / Option<Mime> headers of a part: absent or present
PlainHeaders == [name |-> "f", file_name |-> None, content_type |-> None]

FileHeaders == [name |-> "g", file_name |-> Some("a.txt"), content_type |-> Some("text/plain")]

NoHeaders == [name |-> "", file_name |-> None, content_type |-> None]

\* the sample part of length k: k bytes of value k, without file name and
\* content type for odd k and with them for even k
Part(k) ==
    [kind |-> "part",
     headers |-> IF k % 2 = 1 THEN PlainHeaders ELSE FileHeaders,
     data |-> [i \in 1..k |-> k]]

\* what Multipart::from_request(..).into_entry().into_result() meets in the
\* request body
Bodies ==
    { [kind |-> k, headers |-> NoHeaders, data |-> <<>>] :
        k \in {"not_multipart", "malformed", "no_parts"} }
    \cup { Part(k) : k \in 1..MaxPartLen }

NoBody == [kind |-> "not_multipart", headers |-> NoHeaders, data |-> <<>>]

\* notify_when_responded when the worker reaches line 151: None, Some with
\* the receiver alive, Some with the receiver dropped
Waiters == {"none", "present", "gone"}

\* mutable_req: its url, the part of the body read so far, the io::Result of
\* the most recent I/O on the connection ("none": none yet), what handle()
\* gave back ("none": not called yet) and the number of response write
\* sequences sent through the output sink
NoConn == [url |-> "", body |-> NoBody, io |-> "none", handlerResult |-> "none",
           writes |-> 0]

W == 1..MaxWorkers

\* ------------------------------------------------------- matchit::Router
\* Router::insert: a conflicting pattern is refused and the table is left
\* as it was.
RouterInsert(r, route) ==
    IF \E i \in DOMAIN r : r[i].path = route.path
    THEN [ok |-> FALSE, router |-> r]
    ELSE [ok |-> TRUE, router |-> Append(r, route)]

RECURSIVE BuildRouter(_, _, _)
\* lines 91-94: insert every route in order, unwrap()ing each insert
BuildRouter(r, rs, i) ==
    IF i > Len(rs) THEN [ok |-> TRUE, router |-> r]
    ELSE LET ins == RouterInsert(r, rs[i])
         IN  IF ins.ok THEN BuildRouter(ins.router, rs, i + 1)
             ELSE [ok |-> FALSE, router |-> ins.router]

\* Router::at: Some(route) or None (Err(MatchError))
RouterAt(r, url) ==
    IF \E i \in DOMAIN r : r[i].path = url
    THEN Some(r[CHOOSE i \in DOMAIN r : r[i].path = url])
    ELSE None

\* a variant that lets every error through
IgnoreNoErrors(res) == res

\* tiny_http's Request::ignore_client_closing_errors
IgnoreClientClosingErrors(res) ==
    IF res \in ClientClosingKinds THEN "ok" ELSE res

\* Read::read_to_end(&mut buffer): appends to the Vec
ReadToEnd(buf, data) == buf \o data

\* a variant with the buffer created once, before the spawning loop
SharedBuffer(w) == 1

\* the buffer the closure of worker w captured (line 96 is inside the loop)
WorkerBuffer(w) == w

VARIABLES
    workers,                \* run's `workers` argument
    routes,                 \* run's `routes` argument
    multipart_upload_limit, \* run's `multipart_upload_limit` argument
    runPc,                  \* position of run on the calling (main) thread
    spawned,                \* number of threads spawned so far
    router,                 \* per worker: the Router built for it
    buffer,                 \* per worker: the Vec<u8>
    pc,                     \* per worker: position in the loop body
    conn,                   \* per worker: mutable_req and what happened to it
    matched,                \* per worker: matched.value
    multipart_entry,        \* per worker: the local multipart_entry
    crashCause,             \* per worker: which unwrap() panicked
    received                \* connections delivered by the listener so far

vars == <<workers, routes, multipart_upload_limit, runPc, spawned, router,
          buffer, pc, conn, matched, multipart_entry, crashCause, received>>

config == <<workers, routes, multipart_upload_limit>>

Init ==
    /\ workers \in 0..MaxWorkers
    /\ routes \in RouteLists
    /\ multipart_upload_limit \in UploadLimits
    /\ runPc = "bind"
    /\ spawned = 0
    /\ router = [w \in W |-> <<>>]
    /\ buffer = [w \in W |-> <<>>]
    /\ pc = [w \in W |-> "unspawned"]
    /\ conn = [w \in W |-> NoConn]
    /\ matched = [w \in W |-> NoRoute]
    /\ multipart_entry = [w \in W |-> None]
    /\ crashCause = [w \in W |-> "none"]
    /\ received = 0

\* main.rs calls run from main and unwraps: the process lives as long as run
\* neither returned nor panicked
ProcessAlive == runPc \in {"bind", "spawn", "join"}

\* --------------------------------------------------------------- startup
\* line 83: Server::http(addr).expect(..)
Bind ==
    /\ runPc = "bind"
    /\ \E ok \in BOOLEAN : runPc' = IF ok THEN "spawn" ELSE "panicked"
    /\ UNCHANGED <<config, spawned, router, buffer, pc, conn, matched,
                   multipart_entry, crashCause, received>>

\* lines 87-161: one iteration of the spawning loop
SpawnWorker ==
    /\ runPc = "spawn"
    /\ spawned < workers
    /\ LET w == spawned + 1
           built == BuildRouter(<<>>, routes, 1)
       IN  IF built.ok
           THEN /\ router' = [router EXCEPT ![w] = built.router]
                /\ buffer' = [buffer EXCEPT ![w] = <<>>]
                /\ pc' = [pc EXCEPT ![w] = "Idle"]
                /\ spawned' = w
                /\ UNCHANGED runPc
           ELSE /\ runPc' = "panicked"
                /\ UNCHANGED <<router, buffer, pc, spawned>>
    /\ UNCHANGED <<config, conn, matched, multipart_entry, crashCause, received>>

\* line 87: the loop is over once `workers` threads exist
SpawnDone ==
    /\ runPc = "spawn"
    /\ spawned = workers
    /\ runPc' = "join"
    /\ UNCHANGED <<config, spawned, router, buffer, pc, conn, matched,
                   multipart_entry, crashCause, received>>

\* the guard run is blocked on: guards are joined in spawn order and a
\* worker's loop never ends normally, so it is the first guard
JoinTarget == 1

\* lines 163-167: guard.join().unwrap() in spawn order, then Ok(())
Join ==
    /\ runPc = "join"
    /\ IF workers = 0 THEN runPc' = "returned"
       ELSE /\ pc[JoinTarget] = "Crashed"
            /\ runPc' = "panicked"
    /\ UNCHANGED <<config, spawned, router, buffer, pc, conn, matched,
                   multipart_entry, crashCause, received>>

\* ---------------------------------------------------------- worker loop
\* an unwrap() panics: the thread unwinds, dropping the request, the router's
\* match, the locals and the captured buffer; c records what the panicking
\* call had met
Crash(w, cause, c) ==
    /\ pc' = [pc EXCEPT ![w] = "Crashed"]
    /\ crashCause' = [crashCause EXCEPT ![w] = cause]
    /\ conn' = [conn EXCEPT ![w] = c]
    /\ matched' = [matched EXCEPT ![w] = NoRoute]
    /\ multipart_entry' = [multipart_entry EXCEPT ![w] = None]
    /\ buffer' = [buffer EXCEPT ![w] = <<>>]

\* line 99: server.recv().unwrap()
Recv(w) ==
    /\ ProcessAlive
    /\ pc[w] = "Idle"
    /\ \/ /\ received < MaxConns
          /\ \E u \in Urls : conn' = [conn EXCEPT ![w] = [NoConn EXCEPT !.url = u]]
          /\ received' = received + 1
          /\ pc' = [pc EXCEPT ![w] = "Matching"]
          /\ UNCHANGED <<crashCause, matched, multipart_entry, buffer>>
       \/ /\ Crash(w, "recv", [NoConn EXCEPT !.io = "Other"])
          /\ UNCHANGED received
    /\ UNCHANGED <<config, runPc, spawned, router>>

\* a variant that extracts whatever the route declares
AfterMatchAlwaysExtract(route) == "Extracting"

\* line 111: extraction runs only if matched.value.needs_multipart()
AfterMatch(route) ==
    IF route.needs_multipart THEN "Extracting" ELSE "Dispatching"

\* lines 106-111: router.at(&url).unwrap(), then the needs_multipart test
Match(w) ==
    /\ ProcessAlive
    /\ pc[w] = "Matching"
    /\ LET m == RouterAt(router[w], conn[w].url)
       IN  IF m = None
           THEN Crash(w, "no_route", NoConn)
           ELSE /\ matched' = [matched EXCEPT ![w] = m[1]]
                /\ pc' = [pc EXCEPT ![w] = AfterMatch(m[1])]
                /\ UNCHANGED <<crashCause, conn, multipart_entry, buffer>>
    /\ UNCHANGED <<config, runPc, spawned, router, received>>

\* a variant that builds an entry from whatever the body holds
FirstPartAlways(body) == Some(body)

\* lines 112-116: Multipart::from_request(..).ok()
\*   .and_then(|v| v.into_entry().into_result().ok()).flatten()
FirstPart(body) ==
    IF body.kind = "part" THEN Some(body) ELSE None

\* lines 118-123
MakeEntry(headers, buf) ==
    [name |-> headers.name, file_name |-> headers.file_name,
     content_type |-> headers.content_type, data |-> buf]

\* lines 111-125; the body is read off the connection here, so this is where
\* the model learns what the client sent
Extract(w) ==
    /\ ProcessAlive
    /\ pc[w] = "Extracting"
    /\ \E body \in Bodies :
         LET part == FirstPart(body)
             b == WorkerBuffer(w)
         IN  IF part = None
             THEN /\ conn' = [conn EXCEPT ![w].body = body]
                  /\ pc' = [pc EXCEPT ![w] = "Dispatching"]
                  /\ UNCHANGED <<buffer, multipart_entry, matched, crashCause>>
             ELSE \E io \in IoOutcomes :
                    IF io = "ok"
                    THEN /\ conn' = [conn EXCEPT ![w].body = body, ![w].io = io]
                         /\ buffer' = [buffer EXCEPT ![b] = ReadToEnd(buffer[b], part[1].data)]
                         /\ multipart_entry' = [multipart_entry EXCEPT ![w] =
                               Some(MakeEntry(part[1].headers, buffer'[b]))]
                         /\ pc' = [pc EXCEPT ![w] = "Dispatching"]
                         /\ UNCHANGED <<matched, crashCause>>
                    ELSE Crash(w, "read", [NoConn EXCEPT !.body.kind = "part", !.io = io])
    /\ UNCHANGED <<config, runPc, spawned, router, received>>

\* how application handlers treat the io::Result that respond hands back:
\* `?` (some_or_response!), unwrap() (main.rs), or dropped
OnRespondErr == {"propagate", "unwrap", "ignore"}

\* lines 33-61: respond / respond_with_tinyhttp give the handler the
\* write's result with client-closing errors turned into Ok
Respond(io) == IgnoreClientClosingErrors(io)

\* what handle() does: returns Ok, returns an error of its own making or
\* the one respond gave it, or panics on the one respond gave it
HandlerResult(responds, io, ownErr, onErr) ==
    LET r == IF responds THEN Respond(io) ELSE "ok"
    IN  IF r # "ok" /\ onErr = "unwrap" THEN "PanicIo"
        ELSE IF r # "ok" /\ onErr = "propagate" THEN "ErrIo"
        ELSE IF ownErr THEN "ErrOwn"
        ELSE "Ok"

\* a variant that releases the connection without flushing
AfterHandleNoFlush == "Releasing"

\* a variant that hands the same connection to the handler again
AfterHandleAgain == "Dispatching"

\* line 142 follows line 140: the flush comes right after handle() returned
AfterHandle == "Flushing"

\* lines 127-140: extract the writer, build the Request (the url, the match's
\* params and the multipart entry move into it), handle(..).unwrap(); handle
\* consumes the Request, and neither url nor matched is read after line 140
Dispatch(w) ==
    /\ ProcessAlive
    /\ pc[w] = "Dispatching"
    /\ \E responds \in BOOLEAN, io \in IoOutcomes, ownErr \in BOOLEAN, onErr \in OnRespondErr :
          /\ ~responds => io = "ok"
          /\ (~responds \/ Respond(io) = "ok") => onErr = "ignore"
          /\ LET res == HandlerResult(responds, io, ownErr, onErr)
                 wio == IF responds THEN io ELSE "none"
             IN  IF res = "Ok"
                 THEN /\ conn' = [conn EXCEPT ![w].url = "", ![w].body = NoBody,
                                              ![w].io = wio,
                                              ![w].handlerResult = res,
                                              ![w].writes = IF responds THEN 1 ELSE 0]
                      /\ multipart_entry' = [multipart_entry EXCEPT ![w] = None]
                      /\ pc' = [pc EXCEPT ![w] = AfterHandle]
                      /\ matched' = [matched EXCEPT ![w] = NoRoute]
                      /\ UNCHANGED <<crashCause, buffer>>
                 ELSE Crash(w, "handler",
                            [NoConn EXCEPT !.io = IF res = "ErrOwn" THEN "none" ELSE wio,
                                           !.handlerResult = res])
    /\ UNCHANGED <<config, runPc, spawned, router, received>>

\* line 142: ignore_client_closing_errors(resp_writer.flush()).unwrap()
Flush(w) ==
    /\ ProcessAlive
    /\ pc[w] = "Flushing"
    /\ \E io \in IoOutcomes :
          IF IgnoreClientClosingErrors(io) = "ok"
          THEN /\ conn' = [conn EXCEPT ![w].io = io]
               /\ pc' = [pc EXCEPT ![w] = "Releasing"]
               /\ UNCHANGED <<crashCause, matched, multipart_entry, buffer>>
          ELSE Crash(w, "flush", [NoConn EXCEPT !.io = io])
    /\ UNCHANGED <<config, runPc, spawned, router, received>>

\* lines 144-157: forget the alias, drop the writer, signal the waiter,
\* drop the request; the next iteration starts with fresh locals
Release(w) ==
    /\ ProcessAlive
    /\ pc[w] = "Releasing"
    /\ \E waiter \in Waiters :
          IF waiter = "gone"
          THEN Crash(w, "notify", NoConn)
          ELSE /\ pc' = [pc EXCEPT ![w] = "Idle"]
               /\ conn' = [conn EXCEPT ![w] = NoConn]
               /\ matched' = [matched EXCEPT ![w] = NoRoute]
               /\ UNCHANGED <<crashCause, multipart_entry, buffer>>
    /\ UNCHANGED <<config, runPc, spawned, router, received>>

Next ==
    \/ Bind
    \/ SpawnWorker
    \/ SpawnDone
    \/ Join
    \/ \E w \in W : Recv(w)
    \/ \E w \in W : Match(w)
    \/ \E w \in W : Extract(w)
    \/ \E w \in W : Dispatch(w)
    \/ \E w \in W : Flush(w)
    \/ \E w \in W : Release(w)

Spec == Init /\ [][Next]_vars

\* every thread that can take a step of its own eventually takes it; recv
\* blocks until the listener delivers something, so Recv gets no fairness
Fairness ==
    /\ WF_vars(Bind) /\ WF_vars(SpawnWorker) /\ WF_vars(SpawnDone) /\ WF_vars(Join)
    /\ \A w \in W : /\ WF_vars(Match(w)) /\ WF_vars(Extract(w))
                    /\ WF_vars(Dispatch(w)) /\ WF_vars(Flush(w))
                    /\ WF_vars(Release(w))

FairSpec == Spec /\ Fairness

TypeOK ==
    /\ workers \in 0..MaxWorkers
    /\ spawned \in 0..workers
    /\ received \in 0..MaxConns
    /\ \A w \in W : pc[w] \in {"unspawned", "Idle", "Matching", "Extracting",
                                 "Dispatching", "Flushing", "Releasing", "Crashed"}

\* ----------------------------------------------------------------- claims
HasDuplicatePattern(rs) ==
    \E i, j \in DOMAIN rs : i # j /\ rs[i].path = rs[j].path

\* the failures of one request, as opposed to those of startup or of the
\* listener
PerRequestFailures == {"no_route", "read", "handler", "flush"}

\* C1: a request whose path matches no route runs neither extraction nor a
\* handler and the worker goes back to Idle (having answered not-found).
C1_UnmatchedReturnsToIdle ==
    [][\A w \in W :
         (pc[w] = "Matching" /\ pc'[w] # "Matching"
          /\ RouterAt(router[w], conn[w].url) = None)
         => pc'[w] = "Idle"]_vars

\* C2: when handle() returns an error the worker does not crash.
C2_HandlerErrorKeepsWorker ==
    \A w \in W :
        conn[w].handlerResult \in {"ErrOwn", "ErrIo"} => pc[w] # "Crashed"

\* C3: after startup no per-request failure in a worker terminates the
\* process, whichever worker it happens in.
C3_PerRequestFailureKeepsProcess ==
    \A w \in W :
        (pc[w] = "Crashed" /\ crashCause[w] \in PerRequestFailures) => ProcessAlive

\* C4: the handler of a body-part route sees exactly the part sent in this
\* request: its bytes, field name, file name and content type.
C4_EntryIsThisRequestsPart ==
    \A w \in W :
        (pc[w] = "Dispatching" /\ conn[w].body.kind = "part")
        => multipart_entry[w] = Some(MakeEntry(conn[w].body.headers, conn[w].body.data))

\* C5: a part longer than multipart_upload_limit never reaches the handler
\* in full, and the buffer never holds more than the limit.
C5_OversizeNeverSucceeds ==
    \A w \in W :
        /\ Len(buffer[w]) <= multipart_upload_limit
        /\ (pc[w] = "Dispatching" /\ conn[w].body.kind = "part"
            /\ Len(conn[w].body.data) > multipart_upload_limit)
           => (multipart_entry[w] = None
               \/ Len(multipart_entry[w][1].data) <= multipart_upload_limit)

\* C6: when the matched route needs a body part and the request has none,
\* or malformed framing, extraction yields nothing and the worker goes on
\* to the handler with multipart_entry = None.
C6_NoPartGivesNone ==
    [][\A w \in W :
         (pc[w] = "Extracting" /\ pc'[w] # "Extracting"
          /\ conn'[w].body.kind # "part")
         => (pc'[w] = "Dispatching" /\ multipart_entry'[w] = None)]_vars

C6_Witness ==
    \E w \in W :
        /\ pc[w] = "Dispatching"
        /\ matched[w].needs_multipart
        /\ conn[w].body.kind \in {"malformed", "no_parts"}
        /\ multipart_entry[w] = None

\* C7: an I/O error while reading the body of the first part does not crash
\* the worker.
C7_ReadErrorKeepsWorker ==
    \A w \in W :
        (conn[w].body.kind = "part" /\ conn[w].io \notin {"none", "ok"})
        => pc[w] # "Crashed"

\* C8: run with two identical literal patterns never gets past startup: it
\* does not return Ok and no worker is ever spawned.
C8_DuplicateRejected ==
    HasDuplicatePattern(routes) => (runPc # "returned" /\ spawned = 0)

\* C9: a step in which the write in respond or the final flush meets a
\* client-closing error (and the handler returns no error of its own) does
\* not crash the worker, which goes on to flush and release, and it changes
\* nothing of run or of any other worker.
C9_ClientCloseKeepsWorker ==
    [][\A w \in W :
         (pc[w] \in {"Dispatching", "Flushing"} /\ pc'[w] # pc[w]
          /\ conn'[w].io \in ClientClosingKinds
          /\ conn'[w].handlerResult # "ErrOwn")
         => /\ pc'[w] = (IF pc[w] = "Dispatching" THEN "Flushing" ELSE "Releasing")
            /\ runPc' = runPc
            /\ \A v \in W \ {w} :
                 pc'[v] = pc[v] /\ conn'[v] = conn[v] /\ buffer'[v] = buffer[v]]_vars

C9_Witness ==
    \E w \in W : pc[w] = "Releasing" /\ conn[w].io \in ClientClosingKinds

\* C10: an extraction by one worker reads and writes that worker's buffer
\* only: the entry's data is the worker's own buffer followed by the part of
\* its own request, and no other worker's buffer or entry changes.
C10_OwnBufferOnly ==
    [][\A w \in W :
         (pc[w] = "Extracting" /\ pc'[w] = "Dispatching" /\ multipart_entry'[w] # None)
         => /\ multipart_entry'[w][1].data = buffer[w] \o conn'[w].body.data
            /\ multipart_entry'[w][1].data = buffer'[w]
            /\ \A v \in W \ {w} :
                 buffer'[v] = buffer[v] /\ multipart_entry'[v] = multipart_entry[v]]_vars

C10_Witness ==
    \E w, v \in W :
        /\ w # v
        /\ pc[w] = "Dispatching" /\ pc[v] = "Dispatching"
        /\ multipart_entry[w] # None /\ multipart_entry[v] # None
        /\ multipart_entry[w][1].data # multipart_entry[v][1].data

\* C11: every handler invocation that returned leaves exactly one response
\* write sequence on the connection: never two, and never zero by the time
\* the connection is flushed and released.
C11_ExactlyOneWrite ==
    \A w \in W :
        pc[w] \in {"Flushing", "Releasing"} => conn[w].writes = 1

\* C12: once the address is bound run never returns to its caller, for
\* every worker count, 0 included.
C12_RunNeverReturns ==
    runPc # "returned"

\* C13: a flush that fails with an error that is not a client-closing one
\* does not crash the worker.
C13_FlushErrorKeepsWorker ==
    \A w \in W : ~(pc[w] = "Crashed" /\ crashCause[w] = "flush")

\* C14: a listener receive failure seen by any worker, first spawned or
\* not, ends the whole process.
C14_ListenerFailureIsFatal ==
    (\E w \in W : pc[w] = "Crashed" /\ crashCause[w] = "recv") ~> ~ProcessAlive

\* the positions a worker can move to from position p, in the order of the
\* state machine: receive, match, (extract), handler, flush, release
OrderOf(p) ==
    CASE p = "unspawned"   -> {"Idle"}
      [] p = "Idle"        -> {"Matching", "Crashed"}
      [] p = "Matching"    -> {"Extracting", "Dispatching", "Crashed"}
      [] p = "Extracting"  -> {"Dispatching", "Crashed"}
      [] p = "Dispatching" -> {"Flushing", "Crashed"}
      [] p = "Flushing"    -> {"Releasing", "Crashed"}
      [] p = "Releasing"   -> {"Idle", "Crashed"}
      [] OTHER             -> {}

\* C15: within one connection the steps come in state-machine order; the
\* flush comes only after the handler returned, and the connection is
\* released only after the flush.
C15_StepsInOrder ==
    [][\A w \in W :
         /\ pc'[w] # pc[w] => pc'[w] \in OrderOf(pc[w])
         /\ pc'[w] = "Flushing" => conn'[w].handlerResult = "Ok"
         /\ pc'[w] = "Releasing" =>
               /\ pc[w] \in {"Flushing", "Releasing"}
               /\ conn'[w].handlerResult = "Ok"
               /\ conn'[w].io \in {"ok"} \cup ClientClosingKinds
         /\ (pc[w] # "Idle" /\ pc'[w] = "Idle") => pc[w] \in {"unspawned", "Releasing"}]_vars

C15_Witness ==
    \E w \in W :
        /\ pc[w] = "Releasing"
        /\ conn[w].handlerResult = "Ok"
        /\ conn[w].writes = 1
        /\ buffer[w] # <<>>

\* C16: for a request matched to a route with needs_multipart() = false the
\* body is not parsed, the worker's buffer stays as it was and the handler
\* is given multipart_entry = None.
C16_NoExtractionUnlessNeeded ==
    [][\A w \in W :
         (pc[w] = "Matching" /\ pc'[w] \notin {"Matching", "Crashed"}
          /\ ~matched'[w].needs_multipart)
         => /\ pc'[w] = "Dispatching"
            /\ buffer' = buffer
            /\ multipart_entry'[w] = None
            /\ conn'[w] = conn[w]
            /\ conn'[w].body = NoBody /\ conn'[w].io = "none"]_vars

C16_Witness ==
    \E w \in W :
        /\ pc[w] = "Dispatching"
        /\ ~matched[w].needs_multipart
        /\ buffer[w] # <<>>
        /\ multipart_entry[w] = None

\* the workers still running their loop
Running == { w \in W : pc[w] \notin {"unspawned", "Crashed"} }

\* C18: after any sequence of requests (the listener itself not failing) the
\* number of workers still running their loop is the worker count given to
\* run.
C18_PoolSizeFixed ==
    (runPc = "join" /\ \A w \in W : crashCause[w] # "recv")
    => Cardinality(Running) = workers

\* C19: a completion waiter that has gone away by the time it is signalled
\* does not crash the worker.
C19_GoneWaiterKeepsWorker ==
    \A w \in W : ~(pc[w] = "Crashed" /\ crashCause[w] = "notify")

\* the positions at which worker w holds a connection
InFlight == {"Matching", "Extracting", "Dispatching", "Flushing", "Releasing"}

\* C17: a delivery hands the connection to exactly one worker; the
\* connection, the match, the entry and (while the connection is held) the
\* buffer the entry borrows change only in steps of the worker that holds
\* them; and one connection is given to a handler once only, in a step of
\* that worker from the position where the Request is built.
C17_OneOwnerOneView ==
    [][/\ received' # received =>
            Cardinality({ w \in W : conn'[w] # conn[w] }) = 1
       /\ \A w \in W :
            /\ ( \/ conn'[w] # conn[w]
                 \/ matched'[w] # matched[w]
                 \/ multipart_entry'[w] # multipart_entry[w]
                 \/ (pc[w] \in InFlight /\ buffer'[w] # buffer[w]) )
               => (pc[w] \in {"Idle"} \cup InFlight /\ pc'[w] # pc[w]
                   /\ \A v \in W \ {w} : pc'[v] = pc[v])
            /\ conn'[w].handlerResult # conn[w].handlerResult
               => \/ (conn[w].handlerResult = "none" /\ pc[w] = "Dispatching")
                  \/ (conn'[w].handlerResult = "none" /\ pc'[w] \in {"Idle", "Crashed"})]_vars

C17_Witness ==
    \E w, v \in W :
        /\ w # v
        /\ pc[w] = "Dispatching" /\ multipart_entry[w] # None
        /\ pc[v] \in {"Flushing", "Releasing"} /\ conn[v].handlerResult = "Ok"

====
